---- MODULE Spec2Model ----
(***************************************************************************)
(* Model of the SQL cost-optimisation scanners                             *)
(*   src/script/sql_cost_optimizer.py  (SQLCostOptimizer, main)            *)
(*   src/script/optimizer_2.py         (SqlOptimizer.check_file/scan_files)*)
(*                                                                         *)
(* Text is modelled character by character: a string is a sequence of      *)
(* one-character strings.  Positions are Python's 0-based indices, so the  *)
(* character at Python index i of c is c[i+1].                             *)
(***************************************************************************)
EXTENDS Integers, Sequences, FiniteSets, TLC

VARIABLES
    root_exists, \* does the ETL directory given on the command line exist
    fs,          \* file path -> bytes of the .sql file on disk (existing files)
    unreadable,  \* paths whose open(path, 'r') raises (permission, encoding)
    unwritable,  \* paths whose open(path, 'w') raises (read-only file)
    args,        \* parsed command line of sql_cost_optimizer.py main
    pc,          \* position of the running program
    issues,      \* SQLCostOptimizer.issues
    stats,       \* SQLCostOptimizer.stats
    backups,     \* file path -> contents of the backup files written for it
    out,         \* messages printed, in order
    results,     \* SqlOptimizer.results (optimizer_2.py)
    fix_lines,   \* lines of _fix_file_issues while its loop runs
    fix_pending, \* the sorted issues the loop of _fix_file_issues has yet to visit
    backup_dir   \* backup file name -> bytes, the backup directory of optimizer_2.py

vars == <<root_exists, fs, unreadable, unwritable, args, pc, issues, stats, backups, out, results,
         fix_lines, fix_pending, backup_dir>>

\* the variables only the stepwise fixer and optimizer_2.py use
locals == <<fix_lines, fix_pending, backup_dir>>

----------------------------------------------------------------------------
(* Characters *)

LF == "\n"
CR == "\r"

LowerLetters == <<"a","b","c","d","e","f","g","h","i","j","k","l","m","n","o","p","q","r","s","t","u","v","w","x","y","z">>
UpperLetters == <<"A","B","C","D","E","F","G","H","I","J","K","L","M","N","O","P","Q","R","S","T","U","V","W","X","Y","Z">>
Digits == {"0","1","2","3","4","5","6","7","8","9"}

LowerSet == {LowerLetters[i] : i \in 1..26}
UpperSet == {UpperLetters[i] : i \in 1..26}

\* regex \w (ASCII part)
WordChars == LowerSet \cup UpperSet \cup Digits \cup {"_"}

\* regex \s and str.strip() whitespace
WhiteSpace == {" ", "\t", LF, CR, "\f"}

\* str.upper() / re.IGNORECASE on one character
UpperMap == [ch \in LowerSet |-> UpperLetters[CHOOSE i \in 1..26 : LowerLetters[i] = ch]]

Upper(ch) == IF ch \in LowerSet THEN UpperMap[ch] ELSE ch

\* str.upper()
UpperStr(c) == [k \in 1..Len(c) |-> Upper(c[k])]

----------------------------------------------------------------------------
(* Python str operations, 0-based *)

Min(a, b) == IF a < b THEN a ELSE b
Max(a, b) == IF a > b THEN a ELSE b

\* a slice bound as Python normalises it: negative counts from the end
NormIdx(c, i) == IF i < 0 THEN Max(Len(c) + i, 0) ELSE Min(i, Len(c))

\* c[a:b]
Slice(c, a, b) == SubSeq(c, NormIdx(c, a) + 1, NormIdx(c, b))

\* c[i:i+len(sub)] == sub, for 0 <= i
StartsAt(c, sub, i) ==
    /\ i + Len(sub) <= Len(c)
    /\ \A k \in 1..Len(sub) : c[i + k] = sub[k]

\* c.startswith(sub)
StartsWith(c, sub) == StartsAt(c, sub, 0)

\* c.find(sub, start): lowest index at or after start, -1 when none
Find(c, sub, start) ==
    LET from == NormIdx(c, start)
        hits == {i \in from..(Len(c) - Len(sub)) : StartsAt(c, sub, i)}
    IN  IF hits = {} THEN -1 ELSE CHOOSE i \in hits : \A j \in hits : i <= j

\* c.rfind(sub, start, end): highest index with the occurrence inside [start, end)
RFind(c, sub, start, end) ==
    LET from == NormIdx(c, start)
        to   == NormIdx(c, end)
        hits == {i \in from..(to - Len(sub)) : StartsAt(c, sub, i)}
    IN  IF hits = {} THEN -1 ELSE CHOOSE i \in hits : \A j \in hits : i >= j

\* sub in c
Contains(c, sub) == Find(c, sub, 0) # -1

\* c[:pos].count('\n')
CountLF(c, pos) == Cardinality({k \in 1..Min(pos, Len(c)) : c[k] = LF})

\* c.strip()
Strip(c) ==
    LET keep == {k \in 1..Len(c) : c[k] \notin WhiteSpace}
    IN  IF keep = {} THEN <<>>
        ELSE SubSeq(c, CHOOSE a \in keep : \A b \in keep : a <= b,
                       CHOOSE a \in keep : \A b \in keep : a >= b)

\* c.split('\n'): the pieces between line feeds, always at least one
RECURSIVE Split(_)
Split(c) ==
    LET nl == Find(c, <<LF>>, 0)
    IN  IF nl = -1 THEN <<c>>
        ELSE <<Slice(c, 0, nl)>> \o Split(Slice(c, nl + 1, Len(c)))

\* f.readlines(): the lines with their terminators; none for an empty text
RECURSIVE ReadLines(_)
ReadLines(c) ==
    LET nl == Find(c, <<LF>>, 0)
    IN  IF c = <<>> THEN <<>>
        ELSE IF nl = -1 THEN <<c>>
        ELSE <<Slice(c, 0, nl + 1)>> \o ReadLines(Slice(c, nl + 1, Len(c)))

\* the concatenation of pieces[lo..hi]
RECURSIVE JoinRange(_, _, _)
JoinRange(pieces, lo, hi) ==
    IF lo > hi THEN <<>>
    ELSE IF lo = hi THEN pieces[lo]
    ELSE LET mid == (lo + hi) \div 2
         IN  JoinRange(pieces, lo, mid) \o JoinRange(pieces, mid + 1, hi)

\* ''.join(lines)
Join(lines) == JoinRange(lines, 1, Len(lines))

\* open(path, 'r') in text mode with the default newline=None: universal
\* newlines, "\r\n" and a lone "\r" are both read as "\n"
ReadText(bytes) ==
    Join([k \in 1..Len(bytes) |->
            IF bytes[k] = CR THEN <<LF>>
            ELSE IF bytes[k] = LF /\ k > 1 /\ bytes[k - 1] = CR THEN <<>>
            ELSE <<bytes[k]>>])

\* os.linesep of the platform the scripts are written for (POSIX shebang)
OsLinesep == <<LF>>

\* open(path, 'w') in text mode with the default newline=None: every "\n"
\* written becomes os.linesep
WriteText(text) ==
    Join([k \in 1..Len(text) |-> IF text[k] = LF THEN OsLinesep ELSE <<text[k]>>])

----------------------------------------------------------------------------
(* Regular-expression building blocks (Python re, flags IGNORECASE |       *)
(* MULTILINE | DOTALL).  A matcher returns the index just after the match  *)
(* that starts at index i, or -1 when no match starts there.               *)

\* \b between index i-1 and index i
WordBoundary(c, i) ==
    LET before == i > 0 /\ c[i] \in WordChars
        after  == i < Len(c) /\ c[i + 1] \in WordChars
    IN  before # after

\* the literal kw at index i, compared ignoring case
KeywordAt(c, kw, i) ==
    /\ i >= 0
    /\ i + Len(kw) <= Len(c)
    /\ \A k \in 1..Len(kw) : Upper(c[i + k]) = Upper(kw[k])

\* \s+ from index i: every index at which a non-empty whitespace run that
\* starts at i may end (the regex engine tries the longest first and backs off)
SpaceRunEnds(c, i) ==
    {j \in (i + 1)..Len(c) : \A k \in (i + 1)..j : c[k] \in WhiteSpace}

\* \w+ from index i, greedy: the end of the longest word run (i when empty)
WordRunEnd(c, i) ==
    LET ends == {j \in i..Len(c) : \A k \in (i + 1)..j : c[k] \in WordChars}
    IN  CHOOSE j \in ends : \A m \in ends : j >= m

SetMax(S) == CHOOSE x \in S : \A y \in S : x >= y

KW_SELECT == <<"S","E","L","E","C","T">>
KW_FROM   == <<"F","R","O","M">>
KW_JOIN   == <<"J","O","I","N">>
KW_WHERE  == <<"W","H","E","R","E">>
KW_UNION  == <<"U","N","I","O","N">>
KW_ALL    == <<"A","L","L">>

\* r'\bSELECT\s+\*\b'
End_select_star(c, i) ==
    IF WordBoundary(c, i) /\ KeywordAt(c, KW_SELECT, i)
    THEN LET ends == {j \in SpaceRunEnds(c, i + 6) :
                        /\ j < Len(c)
                        /\ c[j + 1] = "*"
                        /\ WordBoundary(c, j + 1)}
         IN  IF ends = {} THEN -1 ELSE SetMax(ends) + 1
    ELSE -1

\* the table names of the missing_where_large_table pattern
LargeTables == {
    <<"t","r","a","n","s","a","c","t","i","o","n","s">>,
    <<"a","c","c","o","u","n","t","s">>,
    <<"c","u","s","t","o","m","e","r","s">>,
    <<"o","r","d","e","r","s">>,
    <<"p","a","y","m","e","n","t","s">>,
    <<"a","u","d","i","t","_","l","o","g">>,
    <<"e","v","e","n","t","s">> }

\* (?!.*\bWHERE\b) at index e; with DOTALL ".*" runs to the end of the text
NoWhereAfter(c, e) ==
    ~ \E m \in e..(Len(c) - 5) :
        WordBoundary(c, m) /\ KeywordAt(c, KW_WHERE, m) /\ WordBoundary(c, m + 5)

\* (transactions|...|events)\b(?!.*\bWHERE\b) at index j
TableEnd(c, j) ==
    LET ends == {j + Len(t) : t \in {u \in LargeTables :
                        /\ KeywordAt(c, u, j)
                        /\ WordBoundary(c, j + Len(u))
                        /\ NoWhereAfter(c, j + Len(u))}}
    IN  IF ends = {} THEN -1 ELSE SetMax(ends)

\* (\w+\.)?(table)\b(?!...) at index j: the optional schema prefix is tried
\* first, then the table name directly
QualifiedTableEnd(c, j) ==
    LET k == WordRunEnd(c, j)
        withPrefix == IF k > j /\ k < Len(c) /\ c[k + 1] = "."
                      THEN TableEnd(c, k + 1) ELSE -1
    IN  IF withPrefix # -1 THEN withPrefix ELSE TableEnd(c, j)

\* r'\bFROM\s+(\w+\.)?(transactions|accounts|customers|orders|payments|audit_log|events)\b(?!.*\bWHERE\b)'
End_missing_where_large_table(c, i) ==
    IF WordBoundary(c, i) /\ KeywordAt(c, KW_FROM, i)
    THEN LET ok == {j \in SpaceRunEnds(c, i + 4) : QualifiedTableEnd(c, j) # -1}
         IN  IF ok = {} THEN -1 ELSE QualifiedTableEnd(c, SetMax(ok))
    ELSE -1

\* r'\bUNION\s+(?!ALL\b)'
End_union_instead_union_all(c, i) ==
    IF WordBoundary(c, i) /\ KeywordAt(c, KW_UNION, i)
    THEN LET ok == {j \in SpaceRunEnds(c, i + 5) :
                        ~ (KeywordAt(c, KW_ALL, j) /\ WordBoundary(c, j + 3))}
         IN  IF ok = {} THEN -1 ELSE SetMax(ok)
    ELSE -1

\* the end of the match of the named pattern that starts at index i, or -1
MatchEnd(name, c, i) ==
    CASE name = "select_star" -> End_select_star(c, i)
      [] name = "missing_where_large_table" -> End_missing_where_large_table(c, i)
      [] name = "union_instead_union_all" -> End_union_instead_union_all(c, i)

\* re.finditer(pattern, content): the start indices of the non-overlapping
\* matches, leftmost first, searching on from the end of each match
RECURSIVE FindIter(_, _, _)
FindIter(name, c, i) ==
    IF i >= Len(c) THEN <<>>
    ELSE LET e == MatchEnd(name, c, i)
         IN  IF e # -1 THEN <<i>> \o FindIter(name, c, e)
             ELSE FindIter(name, c, i + 1)

----------------------------------------------------------------------------
(* SQLCostOptimizer: the rule catalog and the scan *)

\* SQLCostOptimizer._initialize_patterns, in dictionary order.  The catalog
\* of the source holds eleven rules; the three modelled here are the only
\* ones whose keywords (SELECT *, FROM <large table>, UNION) occur in the
\* texts this model scans: every other pattern needs a keyword (DISTINCT,
\* ORDER, CREATE, DROP, VARCHAR, a parenthesis, CURSOR, FETCH, INSERT) that
\* no modelled text contains, so it yields no match on them.
patterns == <<
    [name |-> "select_star",
     severity |-> "HIGH",
     description |-> <<"S","E","L","E","C","T"," ","*"," ","q","u","e","r","i","e","s"," ","s","c","a","n"," ","u","n","n","e","c","e","s","s","a","r","y"," ","c","o","l","u","m","n","s">>,
     cost_impact |-> <<"3","0","0","-","5","0","0","%"," ","i","n","c","r","e","a","s","e","d"," ","I","/","O"," ","c","o","s","t","s">>,
     fix_template |-> <<"-","-"," ","S","E","L","E","C","T"," ","*"," ","r","e","p","l","a","c","e","d"," ","w","i","t","h"," ","s","p","e","c","i","f","i","c"," ","c","o","l","u","m","n","s","\n","S","E","L","E","C","T"," ","\n"," "," "," "," ","c","o","l","u","m","n","1",",","\n"," "," "," "," ","c","o","l","u","m","n","2",",","\n"," "," "," "," ","c","o","l","u","m","n","3","\n","F","R","O","M"," ","{","t","a","b","l","e","}">>],
    [name |-> "missing_where_large_table",
     severity |-> "HIGH",
     description |-> <<"Q","u","e","r","y"," ","o","n"," ","l","a","r","g","e"," ","t","a","b","l","e"," ","w","i","t","h","o","u","t"," ","W","H","E","R","E"," ","c","l","a","u","s","e">>,
     cost_impact |-> <<"F","u","l","l"," ","t","a","b","l","e"," ","s","c","a","n"," ","-"," ","e","x","t","r","e","m","e","l","y"," ","e","x","p","e","n","s","i","v","e">>,
     fix_template |-> <<"-","-"," ","A","d","d"," ","W","H","E","R","E"," ","c","l","a","u","s","e"," ","t","o"," ","f","i","l","t","e","r"," ","d","a","t","a","\n","-","-"," ","W","H","E","R","E"," ","c","r","e","a","t","e","d","_","d","a","t","e"," ",">","="," ","D","A","T","E","A","D","D","(","d","a","y",","," ","-","3","0",","," ","C","U","R","R","E","N","T","_","D","A","T","E","(",")",")">>],
    [name |-> "union_instead_union_all",
     severity |-> "MEDIUM",
     description |-> <<"U","N","I","O","N"," ","p","e","r","f","o","r","m","s"," ","u","n","n","e","c","e","s","s","a","r","y"," ","d","e","d","u","p","l","i","c","a","t","i","o","n">>,
     cost_impact |-> <<"2","0","-","1","0","0","%"," ","i","n","c","r","e","a","s","e","d"," ","p","r","o","c","e","s","s","i","n","g"," ","t","i","m","e">>,
     fix_template |-> <<"-","-"," ","U","s","e"," ","U","N","I","O","N"," ","A","L","L"," ","i","f"," ","d","u","p","l","i","c","a","t","e","s"," ","a","r","e"," ","a","c","c","e","p","t","a","b","l","e","\n","U","N","I","O","N"," ","A","L","L">>] >>

\* a printed message
Msg(kind, file, n) == [kind |-> kind, file |-> file, n |-> n]

DASHES     == <<"-","-">>
OPEN_BLOCK == <<"/","*">>
CLOSE_BLOCK == <<"*","/">>

\* SQLCostOptimizer._is_in_comment(content, position)
_is_in_comment(content, position) ==
    LET line_start    == RFind(content, <<LF>>, 0, position) + 1
        line_content  == Slice(content, line_start, Find(content, <<LF>>, position))
        comment_start == RFind(content, OPEN_BLOCK, 0, position)
        comment_end   == Find(content, CLOSE_BLOCK, comment_start)
    IN  \/ /\ Contains(line_content, DASHES)
           /\ Find(line_content, DASHES, 0) < position - line_start
        \/ /\ comment_start # -1
           /\ (comment_end = -1 \/ comment_end > position)

\* the SQLIssue built for a match of pattern_info at index start
NewIssue(file_path, content, pattern_info, start) ==
    LET lines    == Split(content)
        line_num == CountLF(content, start) + 1
    IN  [file_path |-> file_path,
         line_number |-> line_num,
         issue_type |-> pattern_info.name,
         severity |-> pattern_info.severity,
         description |-> pattern_info.description,
         original_line |-> IF line_num <= Len(lines) THEN Strip(lines[line_num]) ELSE <<>>,
         suggested_fix |-> pattern_info.fix_template,
         estimated_cost_impact |-> pattern_info.cost_impact]

\* the inner loop of _scan_sql_file: the issues of the matches at the
\* indices starts, skipping a match that lies in a comment
RECURSIVE IssuesOfMatches(_, _, _, _)
IssuesOfMatches(file_path, content, pattern_info, starts) ==
    IF starts = <<>> THEN <<>>
    ELSE (IF _is_in_comment(content, Head(starts)) THEN <<>>
          ELSE <<NewIssue(file_path, content, pattern_info, Head(starts))>>)
         \o IssuesOfMatches(file_path, content, pattern_info, Tail(starts))

\* the outer loop of _scan_sql_file over the patterns from index p on: the
\* issues appended for a file with the given text
RECURSIVE ScanContent(_, _, _)
ScanContent(file_path, content, p) ==
    IF p > Len(patterns) THEN <<>>
    ELSE IssuesOfMatches(file_path, content, patterns[p],
                         FindIter(patterns[p].name, content, 0))
         \o ScanContent(file_path, content, p + 1)

CountSeverity(found, sev) == Cardinality({k \in 1..Len(found) : found[k].severity = sev})

\* AddFound, but a finding already held is not appended again
AddFound_mut(o, found) ==
    LET fresh == IF \E k \in 1..Len(o.issues) : \E m \in 1..Len(found) : o.issues[k] = found[m]
                 THEN <<>> ELSE found
    IN  [issues |-> o.issues \o fresh,
         stats |-> [o.stats EXCEPT !.files_scanned = @ + 1,
                                   !.issues_found = @ + Len(fresh),
                                   !.high_severity = @ + CountSeverity(fresh, "HIGH"),
                                   !.medium_severity = @ + CountSeverity(fresh, "MEDIUM"),
                                   !.low_severity = @ + CountSeverity(fresh, "LOW")],
         out |-> o.out]

\* the end of _scan_sql_file: the issues found are appended and counted
AddFound(o, found) ==
    [issues |-> o.issues \o found,
     stats |-> [o.stats EXCEPT !.files_scanned = @ + 1,
                               !.issues_found = @ + Len(found),
                               !.high_severity = @ + CountSeverity(found, "HIGH"),
                               !.medium_severity = @ + CountSeverity(found, "MEDIUM"),
                               !.low_severity = @ + CountSeverity(found, "LOW")],
     out |-> o.out]

\* SQLCostOptimizer._scan_sql_file(file_path) run on the optimizer o (its
\* issues, its stats, the messages printed): o afterwards; disk and bad
\* describe the file system
_scan_sql_file(o, disk, bad, file_path) ==
    IF file_path \in bad
    THEN [o EXCEPT !.stats.files_scanned = @ + 1,
                   !.out = Append(@, Msg("error_reading", file_path, 0))]
    ELSE AddFound(o, ScanContent(file_path, ReadText(disk[file_path]), 1))

----------------------------------------------------------------------------
(* optimizer_2.py: SqlOptimizer.check_file, line by line *)

\* large_tables of check_file, in list order
large_tables == <<
    <<"T","R","A","N","S","A","C","T","I","O","N","S">>,
    <<"A","C","C","O","U","N","T","S">>,
    <<"C","U","S","T","O","M","E","R","S">>,
    <<"O","R","D","E","R","S">>,
    <<"P","A","Y","M","E","N","T","S">>,
    <<"E","V","E","N","T","S">> >>

Opt2Issue(i, type, description, line, severity) ==
    [line |-> i, type |-> type, description |-> description,
     content |-> Strip(line), severity |-> severity]

\* the look-around of check_file for line number i (1-based): is there a
\* WHERE in lines[max(0, i-2) : min(len(lines), i+3)]
has_where(lines, i) ==
    \E j \in Max(0, i - 2)..(Min(Len(lines), i + 3) - 1) :
        Contains(UpperStr(lines[j + 1]), KW_WHERE)

\* one pass of the table loop of check_file for line number i
Opt2TableIssue(lines, i, line_upper, table) ==
    IF /\ \/ Contains(line_upper, KW_FROM \o <<" ">> \o table)
          \/ Contains(line_upper, KW_JOIN \o <<" ">> \o table)
       /\ ~ has_where(lines, i)
    THEN <<Opt2Issue(i, "missing_where",
                     <<"Q","u","e","r","y"," ","o","n"," ">> \o table \o <<" ","w","i","t","h","o","u","t"," ","W","H","E","R","E"," ","c","l","a","u","s","e">>,
                     lines[i], "HIGH")>>
    ELSE <<>>

\* the table loop of check_file for line number i, from table t on
RECURSIVE Opt2MissingWhere(_, _, _, _)
Opt2MissingWhere(lines, i, line_upper, t) ==
    IF t > Len(large_tables) THEN <<>>
    ELSE Opt2TableIssue(lines, i, line_upper, large_tables[t])
         \o Opt2MissingWhere(lines, i, line_upper, t + 1)

\* re.search(r'\bUNION\s+(?!ALL)', line_upper)
Search_union_without_all(line_upper) ==
    \E i \in 0..(Len(line_upper) - 1) :
        /\ WordBoundary(line_upper, i)
        /\ KeywordAt(line_upper, KW_UNION, i)
        /\ \E j \in SpaceRunEnds(line_upper, i + 5) : ~ KeywordAt(line_upper, KW_ALL, j)

\* issues.append(issue) under a condition
When(cond, issue) == IF cond THEN <<issue>> ELSE <<>>

\* the body of the loop of check_file for line number i, with
\* line_upper = line.upper().strip()
Opt2CheckUpper(lines, i, line, line_upper) ==
    IF StartsWith(line_upper, DASHES) \/ line_upper = <<>> THEN <<>>
    ELSE When(Contains(line_upper, <<"S","E","L","E","C","T"," ","*">>),
              Opt2Issue(i, "select_star", <<"S","E","L","E","C","T"," ","*"," ","f","o","u","n","d"," ","-"," ","s","c","a","n","s"," ","a","l","l"," ","c","o","l","u","m","n","s">>, line, "HIGH"))
      \o Opt2MissingWhere(lines, i, line_upper, 1)
      \o When(/\ Contains(line_upper, <<"O","R","D","E","R"," ","B","Y">>)
              /\ ~ Contains(line_upper, <<"L","I","M","I","T">>)
              /\ ~ Contains(line_upper, <<"T","O","P">>),
              Opt2Issue(i, "order_no_limit", <<"O","R","D","E","R"," ","B","Y"," ","w","i","t","h","o","u","t"," ","L","I","M","I","T"," ","-"," ","s","o","r","t","s"," ","e","n","t","i","r","e"," ","r","e","s","u","l","t">>, line, "MEDIUM"))
      \o When(/\ \/ Contains(line_upper, <<"C","R","E","A","T","E"," ","T","A","B","L","E">>)
                 \/ Contains(line_upper, <<"D","R","O","P"," ","T","A","B","L","E">>)
              /\ ~ Contains(line_upper, <<"T","E","M","P","O","R","A","R","Y">>)
              /\ ~ Contains(line_upper, <<"T","E","M","P">>),
              Opt2Issue(i, "create_drop_table", <<"C","r","e","a","t","i","n","g","/","d","r","o","p","p","i","n","g"," ","p","e","r","m","a","n","e","n","t"," ","t","a","b","l","e","s"," ","i","n"," ","E","T","L">>, line, "HIGH"))
      \o When(Search_union_without_all(line_upper),
              Opt2Issue(i, "union_without_all", <<"U","N","I","O","N"," ","w","i","t","h","o","u","t"," ","A","L","L"," ","-"," ","d","o","e","s"," ","u","n","n","e","c","e","s","s","a","r","y"," ","d","e","d","u","p","l","i","c","a","t","i","o","n">>, line, "MEDIUM"))
      \o When(Contains(line_upper, <<"S","E","L","E","C","T"," ","D","I","S","T","I","N","C","T">>),
              Opt2Issue(i, "distinct_usage", <<"D","I","S","T","I","N","C","T"," ","u","s","a","g","e"," ","-"," ","c","o","n","s","i","d","e","r"," ","i","f"," ","G","R","O","U","P"," ","B","Y"," ","i","s"," ","b","e","t","t","e","r">>, line, "MEDIUM"))

\* the body of the loop of check_file for line number i
Opt2CheckLine(lines, i) == Opt2CheckUpper(lines, i, lines[i], Strip(UpperStr(lines[i])))

RECURSIVE Opt2CheckLines(_, _)
Opt2CheckLines(lines, i) ==
    IF i > Len(lines) THEN <<>>
    ELSE Opt2CheckLine(lines, i) \o Opt2CheckLines(lines, i + 1)

\* SqlOptimizer.check_file(file_path)
check_file(disk, bad, file_path) ==
    IF file_path \in bad THEN <<>>
    ELSE Opt2CheckLines(Split(ReadText(disk[file_path])), 1)

----------------------------------------------------------------------------
(* SQLCostOptimizer: the fixer *)

\* the keys of issues_by_file in insertion order: the files of the issues,
\* each once, in order of first occurrence
RECURSIVE FilesWithIssues(_)
FilesWithIssues(iss) ==
    IF iss = <<>> THEN <<>>
    ELSE LET rest == FilesWithIssues(SubSeq(iss, 1, Len(iss) - 1))
             f == iss[Len(iss)].file_path
         IN  IF \E k \in 1..Len(rest) : rest[k] = f THEN rest ELSE Append(rest, f)

\* issues_by_file[file_path]
IssuesOfFile(iss, file_path) == SelectSeq(iss, LAMBDA x : x.file_path = file_path)

\* the issues with line_number = ln, then those of the smaller line numbers
RECURSIVE SortFromLine(_, _)
SortFromLine(file_issues, ln) ==
    IF ln <= 0 THEN <<>>
    ELSE SelectSeq(file_issues, LAMBDA x : x.line_number = ln)
         \o SortFromLine(file_issues, ln - 1)

\* SortByLineDesc, but the issues are left in the order of detection
SortByLineDesc_mut(file_issues) == file_issues

\* issues.sort(key=lambda x: x.line_number, reverse=True): descending, and
\* stable (issues of one line keep their order)
SortByLineDesc(file_issues) ==
    IF file_issues = <<>> THEN <<>>
    ELSE SortFromLine(file_issues,
                      SetMax({file_issues[k].line_number : k \in 1..Len(file_issues)}))

FIX_HEADER_1 == <<"-","-"," ","C","O","S","T"," ","O","P","T","I","M","I","Z","A","T","I","O","N"," ","F","I","X",":"," ">>
FIX_HEADER_2 == <<"-","-"," ","O","r","i","g","i","n","a","l"," ","l","i","n","e"," ","c","o","m","m","e","n","t","e","d"," ","b","e","l","o","w",","," ","o","p","t","i","m","i","z","e","d"," ","v","e","r","s","i","o","n"," ","a","d","d","e","d","\n">>
FIX_HEADER_3 == <<"-","-"," ","C","o","s","t"," ","I","m","p","a","c","t",":"," ">>
ORIGINAL_PREFIX == <<"-","-"," ","O","R","I","G","I","N","A","L",":"," ">>

\* fix_comment of _fix_file_issues
FixComment(issue) ==
    FIX_HEADER_1 \o issue.description \o <<LF>>
    \o FIX_HEADER_2
    \o FIX_HEADER_3 \o issue.estimated_cost_impact \o <<LF>>

\* commented_original of _fix_file_issues
CommentedOriginal(original_line) ==
    ORIGINAL_PREFIX \o original_line
    \o (IF original_line # <<>> /\ original_line[Len(original_line)] = LF
        THEN <<>> ELSE <<LF>>)

\* suggested_fix of _fix_file_issues
SuggestedFix(issue) ==
    IF issue.suggested_fix # <<>> /\ ~ StartsWith(issue.suggested_fix, DASHES)
    THEN issue.suggested_fix \o <<LF>>
    ELSE <<>>

\* replacement of _fix_file_issues, for the text original_line = lines[line_idx]
Replacement(issue, original_line) ==
    FixComment(issue) \o CommentedOriginal(original_line) \o SuggestedFix(issue)

\* one pass of the loop of _fix_file_issues, for issue: lines afterwards
ApplyIssue(lines, issue) ==
    LET line_idx == issue.line_number - 1
    IN  IF line_idx >= Len(lines) THEN lines
        ELSE [lines EXCEPT ![line_idx + 1] = Replacement(issue, lines[line_idx + 1])]

\* the loop of _fix_file_issues over the sorted issues: lines afterwards
RECURSIVE ApplyIssues(_, _)
ApplyIssues(lines, sorted) ==
    IF sorted = <<>> THEN lines
    ELSE ApplyIssues(ApplyIssue(lines, Head(sorted)), Tail(sorted))

\* what the backup file of _fix_file_issues receives: f.write(''.join(lines)),
\* with lines as they are when the backup is written, after the loop
BackupContent(lines) == WriteText(Join(lines))

\* the end of _fix_file_issues: the backup is written, then the file
WriteBack(w, bad_write, file_path, lines, n) ==
    IF file_path \in bad_write
    THEN [w EXCEPT !.backups[file_path] = Append(@, BackupContent(lines)),
                   !.out = Append(@, Msg("error_writing", file_path, 0))]
    ELSE [w EXCEPT !.backups[file_path] = Append(@, BackupContent(lines)),
                   !.fs[file_path] = WriteText(Join(lines)),
                   !.out = @ \o <<Msg("fixed", file_path, n),
                                  Msg("backup_created", file_path, 0)>>]

\* SQLCostOptimizer._fix_file_issues(file_path, issues) run with the disk,
\* the backups and the messages of w: the three afterwards
_fix_file_issues(w, bad_read, bad_write, file_path, file_issues) ==
    IF file_path \in bad_read
    THEN [w EXCEPT !.out = Append(@, Msg("error_reading", file_path, 0))]
    ELSE WriteBack(w, bad_write, file_path,
                   ApplyIssues(ReadLines(ReadText(w.fs[file_path])), SortByLineDesc(file_issues)),
                   Len(file_issues))

\* the loop of fix_issues_in_place over issues_by_file, from the files given
RECURSIVE FixFiles(_, _, _, _, _, _)
FixFiles(w, bad_read, bad_write, iss, files, dry_run) ==
    IF files = <<>> THEN w
    ELSE LET file_path == Head(files)
             file_issues == IssuesOfFile(iss, file_path)
         IN  FixFiles(IF dry_run
                      THEN [w EXCEPT !.out = Append(@, Msg("would_fix", file_path, Len(file_issues)))]
                      ELSE _fix_file_issues(w, bad_read, bad_write, file_path, file_issues),
                      bad_read, bad_write, iss, Tail(files), dry_run)

\* fix_issues_in_place, but the files are fixed whatever dry_run says
fix_issues_in_place_mut(w, bad_read, bad_write, iss, dry_run) ==
    IF iss = <<>>
    THEN [w EXCEPT !.out = Append(@, Msg("no_issues_to_fix", "", 0))]
    ELSE FixFiles(w, bad_read, bad_write, iss, FilesWithIssues(iss), FALSE)

\* SQLCostOptimizer.fix_issues_in_place(dry_run)
fix_issues_in_place(w, bad_read, bad_write, iss, dry_run) ==
    IF iss = <<>>
    THEN [w EXCEPT !.out = Append(@, Msg("no_issues_to_fix", "", 0))]
    ELSE FixFiles(w, bad_read, bad_write, iss, FilesWithIssues(iss), dry_run)

----------------------------------------------------------------------------
(* Inputs *)

\* the most lines the scanned files of a run hold together
MaxLines == 2

\* the most text fragments the file of the scanning specification is made of
MaxFragments == 3

\* the most calls of a scan method on one optimizer object
MaxScans == 2

\* the .sql files a run may find under the ETL directory, in two directories
Paths == <<"etl/a.sql", "etl/sub/a.sql">>

\* the lines the files of a run are made of: one without a finding, one with
\* two findings (missing_where_large_table, union_instead_union_all), one
\* with one
LineCatalog == {
    <<"x">>,
    <<"F","R","O","M"," ","o","r","d","e","r","s"," ","U","N","I","O","N"," ","y">>,
    <<"U","N","I","O","N"," ","y">> }

Terminators == {<<LF>>, <<CR, LF>>}

\* the texts of exactly n lines, each ended by the terminator e
RECURSIVE TerminatedTexts(_, _)
TerminatedTexts(n, e) ==
    IF n = 0 THEN {<<>>}
    ELSE {t \o l \o e : t \in TerminatedTexts(n - 1, e), l \in LineCatalog}

\* the texts of exactly n lines in one newline convention; the last line may
\* lack its terminator
FileTexts(n) ==
    IF n = 0 THEN {<<>>}
    ELSE UNION {TerminatedTexts(n, e)
                \cup {t \o l : t \in TerminatedTexts(n - 1, e), l \in LineCatalog} :
                e \in Terminators}

\* the fragments the file of the scanning specification is made of
Fragments == {
    <<"S","E","L","E","C","T"," ","*">>,
    <<" ","F","R","O","M"," ","c","u","s","t","o","m","e","r","s">>,
    <<";">>,
    <<" ","w","h","e","r","e"," ","x">>,
    <<"\n">>,
    <<" ">>,
    <<"-","-"," ">>,
    <<"/","*">>,
    <<"*","/">>,
    <<"/">>,
    <<"U","N","I","O","N">>,
    <<"A","L","L">>,
    <<" ","A","L","L">>,
    <<"x">> }

\* the texts made of exactly n fragments
RECURSIVE FragmentTexts(_)
FragmentTexts(n) ==
    IF n = 0 THEN {<<>>}
    ELSE {t \o f : t \in FragmentTexts(n - 1), f \in Fragments}

\* the file systems of no file, of one file holding t1, and of two files
\* holding t1 and t2
FileSystems(t1, t2) ==
    {f \in { [p \in {} |-> <<>>],
             [p \in {Paths[1]} |-> t1],
             [p \in {Paths[1], Paths[2]} |-> IF p = Paths[1] THEN t1 ELSE t2] } :
        Cardinality(DOMAIN f) < 2 => t2 = <<>>}

\* SQLCostOptimizer.__init__: stats
InitialStats ==
    [files_scanned |-> 0, issues_found |-> 0,
     high_severity |-> 0, medium_severity |-> 0, low_severity |-> 0]

\* argparse result of sql_cost_optimizer.py main
ArgSets == [fix : BOOLEAN, dry_run : BOOLEAN]

NoArgs == [fix |-> FALSE, dry_run |-> FALSE]

\* the orders in which a directory traversal may produce the files
Traversals(files) ==
    {order \in [1..Cardinality(files) -> files] :
        \A i, j \in 1..Cardinality(files) : i # j => order[i] # order[j]}

----------------------------------------------------------------------------
(* sql_cost_optimizer.py main, one action per call it makes *)

\* SQLCostOptimizer() and the state of the file system when main starts
Init ==
    /\ root_exists \in BOOLEAN
    /\ \E n1 \in 0..MaxLines :
         \E n2 \in 0..(MaxLines - n1) :
           \E t1 \in FileTexts(n1) :
             \E t2 \in FileTexts(n2) :
               fs \in FileSystems(t1, t2)
    /\ ~ root_exists => DOMAIN fs = {}
    /\ unreadable \in SUBSET (DOMAIN fs)
    /\ unwritable \in SUBSET (DOMAIN fs)
    /\ \A p \in unreadable : fs[p] = <<>> /\ p \notin unwritable
    /\ args \in ArgSets
    /\ pc = "main"
    /\ issues = <<>>
    /\ stats = InitialStats
    /\ backups = [p \in DOMAIN fs |-> <<>>]
    /\ out = <<>>
    /\ results = <<>>
    /\ fix_lines = <<>>
    /\ fix_pending = <<>>
    /\ backup_dir = <<>>

\* ScanFiles, but the loop ends at the first file that cannot be read
RECURSIVE ScanFiles_mut(_, _, _, _)
ScanFiles_mut(o, disk, bad, files) ==
    IF files = <<>> THEN o
    ELSE IF Head(files) \in bad THEN _scan_sql_file(o, disk, bad, Head(files))
    ELSE ScanFiles_mut(_scan_sql_file(o, disk, bad, Head(files)), disk, bad, Tail(files))

\* the loop of scan_directory over sql_files
RECURSIVE ScanFiles(_, _, _, _)
ScanFiles(o, disk, bad, files) ==
    IF files = <<>> THEN o
    ELSE ScanFiles(_scan_sql_file(o, disk, bad, Head(files)), disk, bad, Tail(files))

\* SQLCostOptimizer._generate_summary prints the counters
_generate_summary(o) ==
    [o EXCEPT !.out = Append(@, Msg("summary", "", o.stats.issues_found))]

\* the optimizer and the messages after a scan
Scanned(o) ==
    /\ issues' = o.issues
    /\ stats' = o.stats
    /\ out' = o.out

\* optimizer.scan_directory(args.etl_path)
ScanDirectory ==
    /\ pc = "main"
    /\ IF ~ root_exists
       THEN /\ pc' = "aborted"
            /\ out' = Append(out, Msg("FileNotFoundError", "", 0))
            /\ UNCHANGED <<issues, stats>>
       ELSE /\ \E sql_files \in Traversals(DOMAIN fs) :
                 Scanned(_generate_summary(
                     ScanFiles([issues |-> issues, stats |-> stats,
                                out |-> Append(out, Msg("found_files", "", Len(sql_files)))],
                               fs, unreadable, sql_files)))
            /\ pc' = "report"
    /\ UNCHANGED <<root_exists, fs, unreadable, unwritable, args, backups, results, locals>>

\* optimizer.generate_report(args.report), or the report printed; the
\* report goes to the file named by --report or to the console
GenerateReport ==
    /\ pc = "report"
    /\ out' = IF issues = <<>> THEN Append(out, Msg("no_issues_found", "", 0))
              ELSE Append(out, Msg("report", "", Len(issues)))
    /\ pc' = "json"
    /\ UNCHANGED <<root_exists, fs, unreadable, unwritable, args, issues, stats, backups, results, locals>>

\* if args.json: optimizer.export_issues_json(args.json); the file named by
\* --json is none of the scanned files
ExportIssuesJson ==
    /\ pc = "json"
    /\ \E json \in BOOLEAN :
         out' = IF json THEN Append(out, Msg("json_exported", "", Len(issues))) ELSE out
    /\ pc' = "fix"
    /\ UNCHANGED <<root_exists, fs, unreadable, unwritable, args, issues, stats, backups, results, locals>>

\* MainDryRun, but --fix overrides --dry-run
MainDryRun_mut(a) == a.dry_run /\ ~ a.fix

\* the dry_run argument main passes: fix_issues_in_place(dry_run=args.dry_run)
MainDryRun(a) == a.dry_run

\* the disk, the backups and the messages after the fixer
Fixed(w) ==
    /\ fs' = w.fs
    /\ backups' = w.backups
    /\ out' = w.out

\* if args.fix or args.dry_run: optimizer.fix_issues_in_place(dry_run=args.dry_run)
FixIssuesInPlace ==
    /\ pc = "fix"
    /\ IF args.fix \/ args.dry_run
       THEN Fixed(fix_issues_in_place([fs |-> fs, backups |-> backups, out |-> out],
                                      unreadable, unwritable, issues, MainDryRun(args)))
       ELSE UNCHANGED <<fs, backups, out>>
    /\ pc' = "final"
    /\ UNCHANGED <<root_exists, unreadable, unwritable, args, issues, stats, results, locals>>

\* the closing message of main
FinalMessage ==
    /\ pc = "final"
    /\ out' = Append(out, IF stats.issues_found > 0
                          THEN Msg("found_opportunities", "", stats.issues_found)
                          ELSE Msg("no_cost_issues", "", 0))
    /\ pc' = "done"
    /\ UNCHANGED <<root_exists, fs, unreadable, unwritable, args, issues, stats, backups, results, locals>>

Next ==
    \/ ScanDirectory
    \/ GenerateReport
    \/ ExportIssuesJson
    \/ FixIssuesInPlace
    \/ FinalMessage

Spec == Init /\ [][Next]_vars

----------------------------------------------------------------------------
(* The scan methods called on one object, on a file that is not modified *)

\* one readable file under the ETL directory, made of fragments, and a
\* fresh SQLCostOptimizer() and SqlOptimizer()
InitScan ==
    /\ root_exists = TRUE
    /\ \E n \in 0..MaxFragments :
         \E t \in FragmentTexts(n) :
           fs = [p \in {Paths[1]} |-> t]
    /\ unreadable = {}
    /\ unwritable = {}
    /\ args = NoArgs
    /\ pc = "api"
    /\ issues = <<>>
    /\ stats = InitialStats
    /\ backups = [p \in DOMAIN fs |-> <<>>]
    /\ out = <<>>
    /\ results = <<>>
    /\ fix_lines = <<>>
    /\ fix_pending = <<>>
    /\ backup_dir = <<>>

\* optimizer._scan_sql_file(file_path), called on the same optimizer again
ApiScanSqlFile ==
    /\ pc = "api"
    /\ stats.files_scanned < MaxScans
    /\ \E file_path \in DOMAIN fs :
         Scanned(_scan_sql_file([issues |-> issues, stats |-> stats, out |-> out],
                                fs, unreadable, file_path))
    /\ UNCHANGED <<root_exists, fs, unreadable, unwritable, args, pc, backups, results, locals>>

NextScan == ApiScanSqlFile

SpecScan == InitScan /\ [][NextScan]_vars

\* if issues: self.results.append({'file': file_path, 'issues': issues})
AppendResult(res, file_path, found) ==
    IF found # <<>> THEN Append(res, [file |-> file_path, issues |-> found]) ELSE res

\* the loop of scan_files over sql_files: a result for each file with issues
RECURSIVE Opt2Results(_, _, _, _)
Opt2Results(res, disk, bad, files) ==
    IF files = <<>> THEN res
    ELSE Opt2Results(AppendResult(res, Head(files), check_file(disk, bad, Head(files))),
                     disk, bad, Tail(files))

\* SqlOptimizer.scan_files(etl_dir), called on the same optimizer again
Opt2ScanFiles ==
    /\ pc = "api"
    /\ Len(out) < MaxScans
    /\ \E sql_files \in Traversals(DOMAIN fs) :
         /\ results' = Opt2Results(results, fs, unreadable, sql_files)
         /\ out' = Append(out, Msg("found_files", "", Len(sql_files)))
    /\ UNCHANGED <<root_exists, fs, unreadable, unwritable, args, pc, issues, stats, backups, locals>>

\* both scanners run over the same unmodified file
NextScanners ==
    \/ ApiScanSqlFile
    \/ Opt2ScanFiles

SpecScanners == InitScan /\ [][NextScanners]_vars

----------------------------------------------------------------------------
(* optimizer_2.py: fix_files, fix_single_file and main *)

\* the components of the modelled paths
PathParts ==
    ("etl/a.sql" :> <<"etl", "a.sql">>) @@ ("etl/sub/a.sql" :> <<"etl", "sub", "a.sql">>)

\* os.path.basename(file_path): the last component
basename(file_path) == PathParts[file_path][Len(PathParts[file_path])]

\* backup_name = os.path.basename(file_path) + '.bak', the name of the
\* backup file within backup_dir
backup_name(file_path) == <<basename(file_path), ".bak">>

\* r'\bUNION\s+(?!ALL)' at index i: the end of the match, or -1
End_union_without_all(c, i) ==
    IF WordBoundary(c, i) /\ KeywordAt(c, KW_UNION, i)
    THEN LET ok == {j \in SpaceRunEnds(c, i + 5) : ~ KeywordAt(c, KW_ALL, j)}
         IN  IF ok = {} THEN -1 ELSE SetMax(ok)
    ELSE -1

UNION_ALL_ == <<"U","N","I","O","N"," ","A","L","L"," ">>

\* re.sub(r'\bUNION\s+(?!ALL)', 'UNION ALL ', c, flags=re.IGNORECASE) from
\* index i on
RECURSIVE SubUnion(_, _)
SubUnion(c, i) ==
    IF i >= Len(c) THEN <<>>
    ELSE LET e == End_union_without_all(c, i)
         IN  IF e # -1 THEN UNION_ALL_ \o SubUnion(c, e)
             ELSE <<c[i + 1]>> \o SubUnion(c, i + 1)

\* fixed_content of fix_single_file.  Of its four substitutions only the one
\* of UNION can match a modelled text: the others need SELECT, ORDER BY or
\* CREATE TABLE, which no line of LineCatalog holds.
FixedContent(content) == SubUnion(content, 0)

\* the loop of fix_files from the results given: the backup is copied, then
\* the file is rewritten; an error of copy2 or open is not caught and ends
\* the loop (raised)
RECURSIVE Opt2FixResults(_, _, _, _)
Opt2FixResults(w, bad_read, bad_write, res) ==
    IF res = <<>> THEN w
    ELSE LET file_path == Head(res).file
         IN  IF file_path \in bad_read
             THEN [w EXCEPT !.raised = TRUE]
             ELSE IF file_path \in bad_write
             THEN [w EXCEPT !.backup_dir = (backup_name(file_path) :> w.fs[file_path]) @@ @,
                            !.raised = TRUE]
             ELSE Opt2FixResults(
                      [w EXCEPT !.backup_dir = (backup_name(file_path) :> w.fs[file_path]) @@ @,
                                !.fs[file_path] = WriteText(FixedContent(ReadText(w.fs[file_path]))),
                                !.out = Append(@, Msg("fixed", file_path, 0))],
                      bad_read, bad_write, Tail(res))

\* SqlOptimizer.fix_files(backup_dir)
fix_files(w, bad_read, bad_write, res) ==
    IF res = <<>> THEN [w EXCEPT !.out = Append(@, Msg("no_issues_to_fix", "", 0))]
    ELSE Opt2FixResults(w, bad_read, bad_write, res)

InitOpt2 ==
    /\ root_exists \in BOOLEAN
    /\ \E n1 \in 0..MaxLines :
         \E n2 \in 0..(MaxLines - n1) :
           \E t1 \in FileTexts(n1) :
             \E t2 \in FileTexts(n2) :
               fs \in FileSystems(t1, t2)
    /\ ~ root_exists => DOMAIN fs = {}
    /\ unreadable \in SUBSET (DOMAIN fs)
    /\ unwritable \in SUBSET (DOMAIN fs)
    /\ \A p \in unreadable : fs[p] = <<>> /\ p \notin unwritable
    /\ args \in [fix : BOOLEAN, dry_run : {FALSE}]
    /\ pc = "o2_main"
    /\ issues = <<>>
    /\ stats = InitialStats
    /\ backups = [p \in DOMAIN fs |-> <<>>]
    /\ out = <<>>
    /\ results = <<>>
    /\ fix_lines = <<>>
    /\ fix_pending = <<>>
    /\ backup_dir = <<>>

\* main of optimizer_2.py: the directory is checked and scanned
Opt2MainScan ==
    /\ pc = "o2_main"
    /\ IF ~ root_exists
       THEN /\ out' = Append(out, Msg("directory_not_found", "", 0))
            /\ pc' = "o2_done"
            /\ results' = results
       ELSE \E sql_files \in Traversals(DOMAIN fs) :
              /\ results' = Opt2Results(results, fs, unreadable, sql_files)
              /\ IF results' = <<>>
                 THEN /\ out' = out \o <<Msg("found_files", "", Len(sql_files)),
                                         Msg("no_issues_found", "", 0)>>
                      /\ pc' = "o2_done"
                 ELSE /\ out' = Append(out, Msg("found_files", "", Len(sql_files)))
                      /\ pc' = "o2_report"
    /\ UNCHANGED <<root_exists, fs, unreadable, unwritable, args, issues, stats, backups, locals>>

\* optimizer.print_report()
Opt2PrintReport ==
    /\ pc = "o2_report"
    /\ out' = Append(out, Msg("report", "", Len(results)))
    /\ pc' = IF args.fix THEN "o2_confirm" ELSE "o2_done"
    /\ UNCHANGED <<root_exists, fs, unreadable, unwritable, args, issues, stats, backups,
                   results, locals>>

\* the disk, the backup directory and the messages after fix_files
Opt2Fixed(w) ==
    /\ fs' = w.fs
    /\ backup_dir' = w.backup_dir
    /\ IF w.raised
       THEN /\ out' = w.out
            /\ pc' = "aborted"
       ELSE /\ out' = Append(w.out, Msg("files_fixed", "", 0))
            /\ pc' = "o2_done"

\* the prompt 'Apply fixes?' of main and, on a yes, optimizer.fix_files
Opt2ConfirmAndFix ==
    /\ pc = "o2_confirm"
    /\ \E yes \in BOOLEAN :
         IF yes
         THEN Opt2Fixed(fix_files([fs |-> fs, backup_dir |-> backup_dir, out |-> out,
                                   raised |-> FALSE],
                                  unreadable, unwritable, results))
         ELSE /\ out' = Append(out, Msg("no_changes_made", "", 0))
              /\ pc' = "o2_done"
              /\ UNCHANGED <<fs, backup_dir>>
    /\ UNCHANGED <<root_exists, unreadable, unwritable, args, issues, stats, backups, results,
                   fix_lines, fix_pending>>

NextOpt2 ==
    \/ Opt2MainScan
    \/ Opt2PrintReport
    \/ Opt2ConfirmAndFix

SpecOpt2 == InitOpt2 /\ [][NextOpt2]_vars

----------------------------------------------------------------------------
(* main of sql_cost_optimizer.py in an environment where a file may become
   unreadable between the scan and the fix *)

\* the environment takes the read permission of a scanned file away before
\* the fixer opens it (the case of lines 293-298 of _fix_file_issues)
PermissionLost ==
    /\ pc = "fix"
    /\ \E p \in DOMAIN fs \ unreadable : unreadable' = unreadable \cup {p}
    /\ UNCHANGED <<root_exists, fs, unwritable, args, pc, issues, stats, backups, out,
                   results, locals>>

NextErrors ==
    \/ Next
    \/ PermissionLost

SpecErrors == Init /\ [][NextErrors]_vars

----------------------------------------------------------------------------
(* One file scanned and fixed, _fix_file_issues taken step by step *)

InitFix ==
    /\ root_exists = TRUE
    /\ \E n \in 0..MaxLines :
         \E t \in FileTexts(n) :
           fs = [p \in {Paths[1]} |-> t]
    /\ unreadable = {}
    /\ unwritable \in SUBSET (DOMAIN fs)
    /\ args = [fix |-> TRUE, dry_run |-> FALSE]
    /\ pc = "fix_scan"
    /\ issues = <<>>
    /\ stats = InitialStats
    /\ backups = [p \in DOMAIN fs |-> <<>>]
    /\ out = <<>>
    /\ results = <<>>
    /\ fix_lines = <<>>
    /\ fix_pending = <<>>
    /\ backup_dir = <<>>

\* optimizer._scan_sql_file(file_path)
FixScan ==
    /\ pc = "fix_scan"
    /\ Scanned(_scan_sql_file([issues |-> issues, stats |-> stats, out |-> out],
                              fs, unreadable, Paths[1]))
    /\ pc' = "fix_read"
    /\ UNCHANGED <<root_exists, fs, unreadable, unwritable, args, backups, results, locals>>

\* fix_issues_in_place(dry_run=False) up to the loop of _fix_file_issues:
\* the file is read and the issues are sorted
FixRead ==
    /\ pc = "fix_read"
    /\ IF issues = <<>>
       THEN /\ out' = Append(out, Msg("no_issues_to_fix", "", 0))
            /\ pc' = "fix_done"
            /\ UNCHANGED <<fix_lines, fix_pending>>
       ELSE /\ fix_lines' = ReadLines(ReadText(fs[Paths[1]]))
            /\ fix_pending' = SortByLineDesc(IssuesOfFile(issues, Paths[1]))
            /\ pc' = "fix_loop"
            /\ out' = out
    /\ UNCHANGED <<root_exists, fs, unreadable, unwritable, args, issues, stats, backups,
                   results, backup_dir>>

\* one pass of the loop of _fix_file_issues
FixApply ==
    /\ pc = "fix_loop"
    /\ fix_pending # <<>>
    /\ fix_lines' = ApplyIssue(fix_lines, Head(fix_pending))
    /\ fix_pending' = Tail(fix_pending)
    /\ UNCHANGED <<root_exists, fs, unreadable, unwritable, args, pc, issues, stats, backups,
                   out, results, backup_dir>>

\* after the loop: the backup and the file are written
FixWrite ==
    /\ pc = "fix_loop"
    /\ fix_pending = <<>>
    /\ Fixed(WriteBack([fs |-> fs, backups |-> backups, out |-> out], unwritable,
                       Paths[1], fix_lines, Len(IssuesOfFile(issues, Paths[1]))))
    /\ pc' = "fix_done"
    /\ UNCHANGED <<root_exists, unreadable, unwritable, args, issues, stats, results, locals>>

NextFix ==
    \/ FixScan
    \/ FixRead
    \/ FixApply
    \/ FixWrite

SpecFix == InitFix /\ [][NextFix]_vars

----------------------------------------------------------------------------
(* Notions the properties below are stated with *)

Last(seq) == seq[Len(seq)]

\* a line without its terminator ("\n" or "\r\n")
Chomp(line) ==
    LET a == IF line # <<>> /\ Last(line) = LF THEN SubSeq(line, 1, Len(line) - 1) ELSE line
    IN  IF a # <<>> /\ Last(a) = CR THEN SubSeq(a, 1, Len(a) - 1) ELSE a

EndsWith(c, sub) ==
    /\ Len(sub) <= Len(c)
    /\ SubSeq(c, Len(c) - Len(sub) + 1, Len(c)) = sub

\* the messages of the given kind printed so far
Printed(kind) == {k \in 1..Len(out) : out[k].kind = kind}

\* the line numbers of the findings held for a file
FindingLines(file_path) ==
    {issues[k].line_number : k \in {m \in 1..Len(issues) : issues[m].file_path = file_path}}

\* the step of FixIssuesInPlace has written the file
WrittenInStep(file_path) == fs'[file_path] # fs[file_path]

\* index pos lies after a "--" of its line, or after a "/*" that has no "*/"
\* between it and pos
InsideComment(c, pos) ==
    \/ \E d \in 0..(pos - 2) :
         /\ StartsAt(c, DASHES, d)
         /\ \A k \in (d + 1)..pos : c[k] # LF
    \/ \E o \in 0..(pos - 2) :
         /\ StartsAt(c, OPEN_BLOCK, o)
         /\ ~ \E q \in (o + 2)..(pos - 2) : StartsAt(c, CLOSE_BLOCK, q)

\* the text the scanner reads from the one file of the scanning specifications
ScannedText == ReadText(fs[Paths[1]])

\* the findings held of one rule on one line
HeldOn(type, ln) ==
    {k \in 1..Len(issues) : issues[k].issue_type = type /\ issues[k].line_number = ln}

----------------------------------------------------------------------------
(* C1 *)

\* C1: when _fix_file_issues writes a backup file, that backup holds the
\* content the file had before the fix, byte for byte, so that restoring it
\* reproduces the pre-fix file.
C1_BackupHoldsPreFixContent ==
    [][\A p \in DOMAIN fs :
          Len(backups'[p]) > Len(backups[p]) => Last(backups'[p]) = fs[p]]_vars

----------------------------------------------------------------------------
(* C2 *)

\* C2 as stated: every write of a scanned file by the fixer is preceded, in
\* the same run, by a confirmation step or by a dry-run preview.  (main of
\* sql_cost_optimizer.py has no confirmation step, so no run prints a message
\* of kind "confirmed".)
C2_WritePrecededByConfirmOrPreview ==
    \A k \in Printed("fixed") :
        \E j \in 1..(k - 1) : out[j].kind \in {"confirmed", "would_fix"}

\* C2 as amended: the fixer writes a scanned file only in a run given --fix
\* without --dry-run, and such a run shows no preview and asks for no
\* confirmation; a run given --dry-run writes no file.
C2_WriteOnlyOnFixWithoutDryRun ==
    Printed("fixed") # {} =>
        /\ args.fix
        /\ ~ args.dry_run
        /\ Printed("would_fix") = {}
        /\ Printed("confirmed") = {}

C2_Witness ==
    /\ pc = "done"
    /\ Printed("fixed") # {}

----------------------------------------------------------------------------
(* C3 *)

\* the messages a dry run adds: one listing for each file with findings,
\* giving the number of its findings, or the notice that there is nothing
\* to fix
DryRunListing(new) ==
    /\ \A k \in 1..Len(new) :
         \/ /\ new[k].kind = "would_fix"
            /\ new[k].n > 0
            /\ new[k].n = Cardinality({m \in 1..Len(issues) : issues[m].file_path = new[k].file})
         \/ /\ new[k].kind = "no_issues_to_fix"
            /\ issues = <<>>
    /\ \A m \in 1..Len(issues) :
         Cardinality({k \in 1..Len(new) : new[k].file = issues[m].file_path}) = 1

\* C3: with --dry-run (with or without --fix) fix_issues_in_place changes no
\* scanned file, creates no backup, and leaves the findings and the counters
\* as they are; it only lists each file with findings and its finding count.
C3_DryRunMutatesNothing ==
    [][(pc = "fix" /\ args.dry_run) =>
          /\ fs' = fs
          /\ backups' = backups
          /\ issues' = issues
          /\ stats' = stats
          /\ Len(out') >= Len(out)
          /\ SubSeq(out', 1, Len(out)) = out
          /\ DryRunListing(SubSeq(out', Len(out) + 1, Len(out')))]_vars

C3_Witness ==
    /\ pc = "final"
    /\ args.dry_run
    /\ Cardinality(Printed("would_fix")) = 2

----------------------------------------------------------------------------
(* C4 *)

\* line new of the fixed file stands for line old of the original file: the
\* same bytes when no finding lies on it, else old verbatim after a comment
\* prefix
Preserved(old, new, has_finding) ==
    IF has_finding
    THEN /\ StartsWith(new, DASHES)
         /\ Len(Chomp(new)) > Len(Chomp(old))
         /\ EndsWith(Chomp(new), Chomp(old))
    ELSE new = old

\* the lines old[i..] occur in new[j..] in their order, each preserved
RECURSIVE Embedded(_, _, _, _, _)
Embedded(old, i, new, j, finding_lines) ==
    IF i > Len(old) THEN TRUE
    ELSE IF j > Len(new) THEN FALSE
    ELSE IF Preserved(old[i], new[j], i \in finding_lines)
    THEN Embedded(old, i + 1, new, j + 1, finding_lines)
    ELSE Embedded(old, i, new, j + 1, finding_lines)

\* C4: after _fix_file_issues every line of the original file is still in
\* the fixed file, in the original order: byte for byte when no finding lies
\* on it, verbatim after a comment prefix when one does.
C4_EveryLinePreserved ==
    [][\A p \in DOMAIN fs :
          WrittenInStep(p) =>
              Embedded(ReadLines(fs[p]), 1, ReadLines(fs'[p]), 1, FindingLines(p))]_vars

----------------------------------------------------------------------------
(* C5 *)

\* the rationale header of a finding, followed directly by the commented
\* original line
HeaderThenOriginal(issue, original_line) ==
    FixComment(issue) \o ORIGINAL_PREFIX \o Chomp(original_line) \o <<LF>>

\* C5: for every finding applied by _fix_file_issues, also for each of
\* several findings of one line, the fixed file holds the finding's
\* rationale header followed directly by its commented original line.
C5_HeaderThenOriginalLine ==
    [][\A p \in DOMAIN fs :
          WrittenInStep(p) =>
              \A k \in {m \in 1..Len(issues) : issues[m].file_path = p} :
                  Contains(ReadText(fs'[p]),
                           HeaderThenOriginal(issues[k],
                               ReadLines(ReadText(fs[p]))[issues[k].line_number]))]_vars

----------------------------------------------------------------------------
(* C6 *)

\* the indices of the "*" of each "SELECT *" that a FROM follows
WildcardStars(c) ==
    {s \in 0..(Len(c) - 1) :
        /\ c[s + 1] = "*"
        /\ \E i \in 0..s :
             /\ WordBoundary(c, i)
             /\ KeywordAt(c, KW_SELECT, i)
             /\ s \in SpaceRunEnds(c, i + 6)
        /\ \E j \in (s + 1)..Len(c) : KeywordAt(c, KW_FROM, j)}

Example1 == <<"S","E","L","E","C","T"," ","*"," ","F","R","O","M"," ","c","u","s","t","o","m","e","r","s",";">>

\* C6: after a scan of a file that holds, outside comments, a "SELECT *"
\* followed eventually by FROM, a select_star finding of severity HIGH is
\* held for the line of the "*"; the file "SELECT * FROM customers;" gives
\* exactly two findings, select_star and missing_where_large_table, both
\* HIGH and at line 1.
C6_WildcardRuleFires ==
    stats.files_scanned = 1 =>
        /\ \A s \in WildcardStars(ScannedText) :
             ~ InsideComment(ScannedText, s) =>
                 \E k \in HeldOn("select_star", CountLF(ScannedText, s) + 1) :
                     issues[k].severity = "HIGH"
        /\ ScannedText = Example1 =>
             /\ Len(issues) = 2
             /\ {issues[k].issue_type : k \in 1..2} = {"select_star", "missing_where_large_table"}
             /\ \A k \in 1..2 : issues[k].line_number = 1 /\ issues[k].severity = "HIGH"

----------------------------------------------------------------------------
(* C7 *)

\* the start indices of the matches of a rule on line ln
MatchesOn(name, c, ln) ==
    LET starts == FindIter(name, c, 0)
    IN  {starts[m] : m \in {n \in 1..Len(starts) : CountLF(c, starts[n]) + 1 = ln}}

\* C7: after a scan, for every rule and every line, the findings held are
\* those of the matches that start neither after a "--" of their line nor
\* after a "/*" with no "*/" between it and the match; a match in such a
\* comment gives no finding and is not counted.
C7_CommentSuppression ==
    stats.files_scanned = 1 =>
        /\ stats.issues_found = Len(issues)
        /\ \A p \in 1..Len(patterns) :
             \A ln \in 1..(CountLF(ScannedText, Len(ScannedText)) + 1) :
                 Cardinality(HeldOn(patterns[p].name, ln))
                   = Cardinality({i \in MatchesOn(patterns[p].name, ScannedText, ln) :
                                      ~ InsideComment(ScannedText, i)})

----------------------------------------------------------------------------
(* C8 *)

\* the indices of the keyword UNION
UnionOccurrences(c) ==
    {i \in 0..(Len(c) - 5) :
        WordBoundary(c, i) /\ KeywordAt(c, KW_UNION, i) /\ WordBoundary(c, i + 5)}

\* the UNION at index i is followed, after white space, by the keyword ALL
FollowedByAll(c, i) ==
    \E j \in SpaceRunEnds(c, i + 5) :
        KeywordAt(c, KW_ALL, j) /\ WordBoundary(c, j + 3)

\* C8: for a file in which every keyword UNION is followed by ALL after
\* some white space, neither scanner holds a finding of its union rule.
C8_UnionAllNoFinding ==
    (\A i \in UnionOccurrences(ScannedText) : FollowedByAll(ScannedText, i)) =>
        /\ \A k \in 1..Len(issues) : issues[k].issue_type # "union_instead_union_all"
        /\ \A r \in 1..Len(results) :
             \A k \in 1..Len(results[r].issues) :
                 results[r].issues[k].type # "union_without_all"

----------------------------------------------------------------------------
(* C9 *)

\* a large table name at index j: its end, or -1
LargeTableEnd(c, j) ==
    LET ends == {j + Len(t) : t \in {u \in LargeTables :
                        KeywordAt(c, u, j) /\ WordBoundary(c, j + Len(u))}}
    IN  IF ends = {} THEN -1 ELSE SetMax(ends)

\* FROM <large table> at index i, the table with or without a schema
\* prefix: the end of the table name, or -1
OccurrenceEnd(c, i) ==
    IF WordBoundary(c, i) /\ KeywordAt(c, KW_FROM, i)
    THEN LET ends == UNION {
                 {LargeTableEnd(c, j)} \cup
                 (IF WordRunEnd(c, j) > j /\ WordRunEnd(c, j) < Len(c)
                     /\ c[WordRunEnd(c, j) + 1] = "."
                  THEN {LargeTableEnd(c, WordRunEnd(c, j) + 1)} ELSE {})
                 : j \in SpaceRunEnds(c, i + 4)}
         IN  IF ends = {} THEN -1 ELSE SetMax(ends)
    ELSE -1

\* a WHERE token lies between index e and the next ";"
WhereInStatement(c, e) ==
    \E m \in e..(Len(c) - 5) :
        /\ WordBoundary(c, m) /\ KeywordAt(c, KW_WHERE, m) /\ WordBoundary(c, m + 5)
        /\ \A k \in (e + 1)..m : c[k] # ";"

\* the FROM <large table> occurrences of line ln that the scanner takes to
\* be outside comments and that have no WHERE later in their statement
UnfilteredOn(c, ln) ==
    {i \in 0..(Len(c) - 1) :
        /\ OccurrenceEnd(c, i) # -1
        /\ CountLF(c, i) + 1 = ln
        /\ ~ _is_in_comment(c, i)
        /\ ~ WhereInStatement(c, OccurrenceEnd(c, i))}

\* C9: after a scan, a FROM <large table> outside comments has a
\* missing_where_large_table finding (HIGH) exactly when no WHERE token
\* lies between the table name and the ";" that ends its statement; a WHERE
\* of a later statement does not prevent the finding.
C9_MissingWhereStatementScope ==
    stats.files_scanned = 1 =>
        \A ln \in 1..(CountLF(ScannedText, Len(ScannedText)) + 1) :
            /\ Cardinality(HeldOn("missing_where_large_table", ln))
                 = Cardinality(UnfilteredOn(ScannedText, ln))
            /\ \A k \in HeldOn("missing_where_large_table", ln) : issues[k].severity = "HIGH"

----------------------------------------------------------------------------
(* C10 *)

\* count, line numbers and rule ids of the findings held
FindingsSummary(iss) ==
    [k \in 1..Len(iss) |-> <<iss[k].issue_type, iss[k].line_number>>]

\* a further call of _scan_sql_file on the same optimizer
FurtherScan ==
    /\ stats.files_scanned >= 1
    /\ stats'.files_scanned = stats.files_scanned + 1

----------------------------------------------------------------------------
(* C11 *)

\* the lines of the file as _fix_file_issues read them
OriginalLines == ReadLines(ReadText(fs[Paths[1]]))

\* C11: _fix_file_issues applies the findings of a file in non-increasing
\* order of line number; when a finding is applied, every line with a
\* smaller line number is still at its index with its original content, the
\* finding is applied at the index of the line it was detected on, and no
\* other index changes.
C11_DescendingApplication ==
    [][(pc = "fix_loop" /\ fix_pending # <<>>) =>
          LET issue == Head(fix_pending)
              ln    == issue.line_number
          IN  /\ \A k \in 2..Len(fix_pending) : fix_pending[k].line_number <= ln
              /\ Len(fix_lines) = Len(OriginalLines)
              /\ ln \in 1..Len(fix_lines)
              /\ \A j \in 1..(ln - 1) : fix_lines[j] = OriginalLines[j]
              /\ Strip(OriginalLines[ln]) = issue.original_line
              /\ Len(fix_lines') = Len(fix_lines)
              /\ fix_lines'[ln] # fix_lines[ln]
              /\ \A j \in 1..Len(fix_lines) : j # ln => fix_lines'[j] = fix_lines[j]]_vars

C11_Witness ==
    /\ pc = "fix_loop"
    /\ fix_pending # <<>>
    /\ Head(fix_pending).line_number = 1
    /\ Len(fix_lines) = 2
    /\ fix_lines[2] # OriginalLines[2]

----------------------------------------------------------------------------
(* C12 *)

\* the template holds a line that is not a comment
HasNonCommentLine(template) ==
    \E k \in 1..Len(Split(template)) :
        /\ Strip(Split(template)[k]) # <<>>
        /\ ~ StartsWith(Strip(Split(template)[k]), DASHES)

\* text holds the template directly below a commented original line
AppendedBelowOriginal(text, template) ==
    \E i \in 1..Len(text) :
        /\ text[i] = LF
        /\ StartsAt(text, template \o <<LF>>, i)
        /\ StartsAt(text, ORIGINAL_PREFIX, RFind(text, <<LF>>, 0, i - 1) + 1)

\* C12: for every finding applied whose suggested-fix template holds a line
\* that is not a comment, the fixed file holds the template below the
\* commented original line; a template of comment lines only is not
\* written to the file.
C12_SuggestionAppended ==
    [][\A p \in DOMAIN fs :
          WrittenInStep(p) =>
              \A k \in {m \in 1..Len(issues) : issues[m].file_path = p} :
                  IF HasNonCommentLine(issues[k].suggested_fix)
                  THEN AppendedBelowOriginal(ReadText(fs'[p]), issues[k].suggested_fix)
                  ELSE ~ Contains(ReadText(fs'[p]), issues[k].suggested_fix)]_vars

----------------------------------------------------------------------------
(* C13 *)

\* the messages the step prints
NewMessages == SubSeq(out', Len(out) + 1, Len(out'))

\* how many of the messages are of the given kind and about the given file
CountAbout(msgs, kind, file_path) ==
    Cardinality({k \in 1..Len(msgs) : msgs[k].kind = kind /\ msgs[k].file = file_path})

\* the scan of an existing directory: a file that cannot be read is
\* reported once and gives no finding; every other file is scanned, and
\* its findings are those of its text
ScanIsolatesErrors ==
    /\ pc' = "report"
    /\ stats'.files_scanned = Cardinality(DOMAIN fs)
    /\ \A p \in DOMAIN fs :
         IF p \in unreadable
         THEN /\ CountAbout(NewMessages, "error_reading", p) = 1
              /\ IssuesOfFile(issues', p) = <<>>
         ELSE /\ CountAbout(NewMessages, "error_reading", p) = 0
              /\ IssuesOfFile(issues', p) = ScanContent(p, ReadText(fs[p]), 1)

\* the fixer: a file with findings that cannot be read or written is
\* reported once and left as it is; every other file with findings is fixed
FixIsolatesErrors ==
    /\ issues' = issues
    /\ \A p \in DOMAIN fs :
         IF IssuesOfFile(issues, p) = <<>>
         THEN /\ fs'[p] = fs[p]
              /\ \A k \in 1..Len(NewMessages) : NewMessages[k].file # p
         ELSE IF p \in unreadable
         THEN /\ fs'[p] = fs[p]
              /\ backups'[p] = backups[p]
              /\ CountAbout(NewMessages, "error_reading", p) = 1
              /\ CountAbout(NewMessages, "fixed", p) = 0
         ELSE IF p \in unwritable
         THEN /\ fs'[p] = fs[p]
              /\ CountAbout(NewMessages, "error_writing", p) = 1
              /\ CountAbout(NewMessages, "fixed", p) = 0
         ELSE /\ fs'[p] # fs[p]
              /\ CountAbout(NewMessages, "fixed", p) = 1
              /\ CountAbout(NewMessages, "error_reading", p) = 0
              /\ CountAbout(NewMessages, "error_writing", p) = 0

\* C13: a file that cannot be read during the scan, or cannot be read or
\* written during the fix, is skipped with a message; it gives no finding,
\* the findings of the other files are not touched, and every other file is
\* still scanned or fixed.  Only a missing root directory aborts the run,
\* before any file is scanned.
C13_PerFileErrorIsolation ==
    [][/\ (pc = "main" /\ pc' # "main" /\ root_exists) => ScanIsolatesErrors
       /\ (pc = "main" /\ pc' # "main" /\ ~ root_exists) =>
              /\ pc' = "aborted"
              /\ issues' = <<>>
              /\ stats'.files_scanned = 0
       /\ pc' = "aborted" => (~ root_exists /\ pc \in {"main", "aborted"})
       /\ (pc = "fix" /\ pc' = "final" /\ args.fix /\ ~ args.dry_run) => FixIsolatesErrors]_vars

C13_Witness ==
    /\ pc = "final"
    /\ \E p, q \in DOMAIN fs :
         /\ p \in unreadable
         /\ IssuesOfFile(issues, p) # <<>>
         /\ CountAbout(out, "error_reading", p) = 1
         /\ CountAbout(out, "fixed", q) = 1

----------------------------------------------------------------------------
(* C14 *)

\* the files fix_files is to fix
FilesOfResults == {results[k].file : k \in 1..Len(results)}

\* C14: when fix_files of optimizer_2.py has completed, every fixed file
\* has a backup of its own in the backup directory that holds the bytes the
\* file had before the fix; no two fixed files share a backup.
C14_OwnBackupForEveryFile ==
    [][(pc = "o2_confirm" /\ pc' = "o2_done" /\ Last(out').kind = "files_fixed") =>
          \E own \in [FilesOfResults -> DOMAIN backup_dir'] :
              /\ \A p, q \in FilesOfResults : p # q => own[p] # own[q]
              /\ \A p \in FilesOfResults : backup_dir'[own[p]] = fs[p]]_vars

====
